---- MODULE Spec2Model ----
(***************************************************************************)
(* The video-generation pipeline of src/reddit_shorts/main.py:             *)
(* run_local_video_generation and the functions it calls                   *)
(* (get_available_voices, generate_transcript, generate_audio,             *)
(* create_video_from_audio), as a state machine over the file system, the  *)
(* wall clock and the outbound calls of each run; and the two request      *)
(* handlers that call it, generate_video of src/main.py and create_video   *)
(* of src/api.py, over the user, the Video records and the story files;     *)
(* and forgot_password and reset_password of src/auth.py and                *)
(* require_api_key of src/api.py, over the accounts, the reset tokens and   *)
(* the API keys.                                                            *)
(***************************************************************************)
EXTENDS Integers, Sequences, FiniteSets, TLC

\* ------------------------------------------------------------------ bounds

\* Longest transcript the LLM answers with in Spec.
MaxLines == 2
\* Longest transcript the LLM answers with in SpecConcurrent.
MaxLinesConcurrent == 1
\* Last second of the wall clock.
MaxClock == 1

\* Most generate requests of a behaviour of SpecWeb.
MaxRequests == 2

\* Most requests to the account handlers of a behaviour of SpecAuth.
MaxAuthRequests == 2

\* The runs (invocations of run_local_video_generation) of a behaviour.
Runs == {1, 2}
\* Names tempfile.mkdtemp can hand out.
TmpNames == {"tmpA", "tmpB"}

\* ------------------------------------------------- values of the program

None == "None"
\* A key a JSON object does not have.
Missing == "<missing>"
NoPath == <<>>
NoCmd == <<>>

\* VOICE_IDS: every persona of the table is bound to 'emily'.
Personas ==
    {"JOE_ROGAN", "BARACK_OBAMA", "BEN_SHAPIRO", "DONALD_TRUMP", "JOE_BIDEN",
     "KAMALA_HARRIS", "ANDREW_TATE", "JORDAN_PETERSON"}

VOICE_IDS == [p \in Personas |-> "emily"]

\* The hard-coded default voice.
DefaultVoice == "en_us_002"

\* The two speakers run_local_video_generation asks generate_transcript for.
RequestedSpeakers == {"JOE_ROGAN", "BEN_SHAPIRO"}

\* background_music arguments: none, a path with a file, a path without one.
MusicArgs == {None, "music_on_disk.mp3", "music_not_on_disk.mp3"}

\* os.path.exists on a background-music path.
PathExists(path) == path = "music_on_disk.mp3"

\* src/config.py: the default of MAX_TEXT_LENGTH.
MAX_TEXT_LENGTH == 5000

\* The generate requests of a behaviour.
Requests == 1..MaxRequests
\* The two handlers: generate_video (POST /api/generate) and create_video
\* (POST /api/v1/videos).
Routes == {"generate_video", "create_video"}
\* Titles and stories a request can carry: empty, blank, short, and a story
\* of MAX_TEXT_LENGTH + 1 characters.
LongStory == "story longer than MAX_TEXT_LENGTH"
Titles == {"", "title"}
Stories == {"", "   ", "story", LongStory}
Plans == {"free", "pro", "business"}

\* src/models.py, PasswordReset.__init__: a reset token lives an hour, here
\* in seconds.
RESET_LIFETIME == 3600

\* The requests to forgot_password, reset_password and the handlers behind
\* require_api_key.
AuthRequests == 1..MaxAuthRequests
\* The one account of the model, and the e-mail addresses a forgot_password
\* request can carry: none, the account's (in another case and with a
\* trailing blank), and an address without account.
AccountEmail == "ann@example.com"
Emails == {"", "Ann@Example.com ", "bob@example.com"}
\* Passwords a reset_password request can carry.
Passwords == {"short", "Str0ngPassword"}
\* X-API-Key headers: none, the stored key, a key that is not stored.
ApiKeyHeaders == {None, "key1", "key9"}

\* ------------------------------------------------ answers of the outside

\* What the voice-listing endpoint can answer: status 0 is a network
\* exception; voices is the 'voices' member (hasVoices: whether it is there),
\* its first voice having an id, an empty id or no voice_id member.
VoiceResponses ==
    {[status |-> 0, hasVoices |-> FALSE, voices |-> <<>>],
     [status |-> 500, hasVoices |-> FALSE, voices |-> <<>>],
     [status |-> 200, hasVoices |-> FALSE, voices |-> <<>>],
     [status |-> 200, hasVoices |-> TRUE, voices |-> <<>>],
     [status |-> 200, hasVoices |-> TRUE, voices |-> <<[voice_id |-> "george"]>>],
     [status |-> 200, hasVoices |-> TRUE, voices |-> <<[voice_id |-> ""]>>],
     [status |-> 200, hasVoices |-> TRUE, voices |-> <<[voice_id |-> Missing]>>]}

\* Transcript entries: a line of a requested speaker, of a speaker nobody
\* asked for, and an entry without its 'text' member.
Entries ==
    {[agentId |-> "JOE_ROGAN", text |-> "line"],
     [agentId |-> "BEN_SHAPIRO", text |-> "line"],
     [agentId |-> "ELON_MUSK", text |-> "line"],
     [agentId |-> "JOE_ROGAN", text |-> Missing]}

Transcripts(entries, n) == UNION {[1..k -> entries] : k \in 0..n}

\* What the chat-completion endpoint can answer: a network exception (0), a
\* non-200 status, or 200 with a message content that is not JSON, a JSON
\* object without 'transcript', or one with a transcript of at most n lines.
LLMResponses(entries, n) ==
    {[status |-> 0, json |-> FALSE, hasTranscript |-> FALSE, transcript |-> <<>>],
     [status |-> 500, json |-> FALSE, hasTranscript |-> FALSE, transcript |-> <<>>],
     [status |-> 200, json |-> FALSE, hasTranscript |-> FALSE, transcript |-> <<>>],
     [status |-> 200, json |-> TRUE, hasTranscript |-> FALSE, transcript |-> <<>>]}
    \cup {[status |-> 200, json |-> TRUE, hasTranscript |-> TRUE, transcript |-> t] :
            t \in Transcripts(entries, n)}

\* What the speech endpoint can answer: a network exception (0), a non-200
\* status, 200 without audio_data, 200 with audio_data.
TTSResponses ==
    {[status |-> 0, audio |-> FALSE],
     [status |-> 500, audio |-> FALSE],
     [status |-> 200, audio |-> FALSE],
     [status |-> 200, audio |-> TRUE]}

\* How the media tool can end: exit 0 with the output written, exit 0 without
\* it, a non-zero exit, no process at all (the executable is not found), or
\* never: subprocess.run is given no timeout.
ToolOutcomes == {"exit0", "exit0_nofile", "nonzero", "notfound", "never"}

\* e.stderr of the CalledProcessError of a non-zero exit: the tool's
\* diagnostic text.
ToolStderr(outcome) ==
    IF outcome = "nonzero" THEN "Invalid data found when processing input" ELSE ""

\* The outside of a run: the arguments it may be called with and the answers
\* it may get.
Env ==
    [music |-> MusicArgs,
     voices |-> VoiceResponses,
     llm |-> LLMResponses(Entries, MaxLines),
     tts |-> TTSResponses,
     tool |-> ToolOutcomes]

\* The outside of concurrent runs: every endpoint and the media tool either
\* succeed or fail, one way each, and no background music is passed.
EnvConcurrent ==
    [music |-> {None},
     voices |-> {v \in VoiceResponses :
                   v.status = 500 \/ (v.voices # <<>> /\ v.voices[1].voice_id = "george")},
     llm |-> {l \in LLMResponses({e \in Entries : e.agentId # "BEN_SHAPIRO"},
                                 MaxLinesConcurrent) :
                l.status = 500 \/ l.hasTranscript},
     tts |-> {t \in TTSResponses : t.status = 500 \/ t.audio},
     tool |-> {"exit0", "nonzero"}]

\* ------------------------------------------------------------------ state

VARIABLES
    GROQ_API_KEY,       \* whether the LLM key is configured
    SPEECHIFY_API_KEY,  \* whether the TTS key is configured
    now,                \* the wall clock, in seconds
    workDirs,           \* the working directories that exist
    workFiles,          \* the files inside them: path -> content
    uploads,            \* the durable output directory: path -> content
    listFiles,          \* the line-list files in the system's temporary
                        \* directory: path -> content
    pc,                 \* each run's position
    background_music,   \* each run's argument
    temp_dir,           \* locals of run_local_video_generation
    fallback_voice,
    transcript,
    audio_files,
    video_filename,
    pending,            \* the return or raise the finally clause lets through
    result,             \* how the call ended, as its caller sees it
    calls,              \* history: the outbound calls of each run
    tool,               \* history: the media tool invocation of each run
    hist,               \* history: other facts of each run
    current_user,       \* the user of the generate requests
    videos,             \* the Video table; a record's id is its index
    storyFiles,         \* the temp_story_<id>.txt files that exist
    handler,            \* each generate request: position, locals, response
    usage_log,          \* what log_usage was called with
    error_log,          \* what current_app.logger.error was called with
    users,              \* the User table: id -> account
    password_resets,    \* the PasswordReset table; a row's token is its index
    api_keys,           \* the APIKey table: key -> row
    client,             \* each account request: position, inputs, response
    changes             \* history: the password changes, in order

config == <<GROQ_API_KEY, SPEECHIFY_API_KEY>>
fs == <<workDirs, workFiles, uploads, listFiles>>
locals == <<background_music, temp_dir, fallback_voice, transcript, audio_files,
            video_filename>>
web == <<current_user, videos, storyFiles, handler, usage_log, error_log>>
auth == <<users, password_resets, api_keys, client, changes>>
vars == <<config, now, fs, pc, locals, pending, result, calls, tool, hist, web, auth>>

\* -------------------------------------------------------- pure functions

\* get_available_voices on a keyed request: raises, or returns the list.
GetAvailableVoices(resp) ==
    IF resp.status = 0 THEN [raised |-> TRUE, msg |-> "ClientError", voices |-> <<>>]
    ELSE IF resp.status # 200
        THEN [raised |-> TRUE, msg |-> "Failed to get voices", voices |-> <<>>]
    ELSE [raised |-> FALSE, msg |-> "",
          voices |-> IF resp.hasVoices THEN resp.voices ELSE <<>>]

\* Lines 181-189: whether the voice-listing step ended in its except clause.
VoicesFailed(keyed, resp) ==
    \/ ~keyed
    \/ GetAvailableVoices(resp).raised
    \/ /\ GetAvailableVoices(resp).voices # <<>>
       /\ GetAvailableVoices(resp).voices[1].voice_id = Missing

\* ResolveFallback without line 189: the except clause sets no voice.
ResolveFallbackUnset(keyed, resp) ==
    IF VoicesFailed(keyed, resp) THEN None
    ELSE IF GetAvailableVoices(resp).voices = <<>> THEN DefaultVoice
    ELSE GetAvailableVoices(resp).voices[1].voice_id

\* Lines 181-189: the fallback voice the step leaves.
ResolveFallback(keyed, resp) ==
    IF VoicesFailed(keyed, resp) THEN DefaultVoice
    ELSE IF GetAvailableVoices(resp).voices = <<>> THEN DefaultVoice
    ELSE GetAvailableVoices(resp).voices[1].voice_id

\* generate_transcript on a keyed request: raises, or returns the transcript.
GenerateTranscript(resp) ==
    IF resp.status = 0 THEN [raised |-> TRUE, msg |-> "ClientError", value |-> <<>>]
    ELSE IF resp.status # 200
        THEN [raised |-> TRUE, msg |-> "Groq API error", value |-> <<>>]
    ELSE IF ~resp.json
        THEN [raised |-> TRUE, msg |-> "JSONDecodeError", value |-> <<>>]
    ELSE [raised |-> FALSE, msg |-> "",
          value |-> IF resp.hasTranscript THEN resp.transcript ELSE <<>>]

\* voice_id.startswith('your_'), on the voice ids of the model.
StartsWithYour(voice_id) == voice_id \in {"your_joe_rogan_voice_id", "your_voice"}

\* BindVoice without the persona table: every line gets the fallback voice.
BindVoiceFallbackOnly(agent_id, fallback) == fallback

\* Lines 201-205: the voice bound to a line's speaker.
BindVoice(agent_id, fallback) ==
    LET voice_id == IF agent_id \in DOMAIN VOICE_IDS THEN VOICE_IDS[agent_id]
                    ELSE fallback
    IN IF voice_id = "" \/ StartsWithYour(voice_id)
           \/ voice_id = "your_joe_rogan_voice_id"
       THEN fallback
       ELSE voice_id

\* Lines 94-96: generate_audio's own default.
RequestVoice(voice_id) ==
    IF voice_id = "" \/ voice_id = "your_joe_rogan_voice_id" THEN DefaultVoice
    ELSE voice_id

\* SynthesisError without lines 116-117: a missing audio_data goes unnoticed.
SynthesisErrorStatusOnly(resp) ==
    IF resp.status = 0 THEN "ClientError"
    ELSE IF resp.status # 200 THEN "Speechify API error"
    ELSE ""

\* Lines 111-117: what generate_audio makes of the endpoint's answer.
SynthesisError(resp) ==
    IF resp.status = 0 THEN "ClientError"
    ELSE IF resp.status # 200 THEN "Speechify API error"
    ELSE IF ~resp.audio THEN "No audio data received from Speechify"
    ELSE ""

\* AudioPath with the index left out of the name: f'{person}.mp3'.
AudioPathBySpeaker(output_dir, person, index) == <<output_dir, <<person, 0, "mp3">>>>

\* Line 121: f'{person}-{index}.mp3' inside output_dir.
AudioPath(output_dir, person, index) == <<output_dir, <<person, index, "mp3">>>>

\* Line 213: generated_video_<%Y%m%d_%H%M%S>.mp4, the clock cut to the second.
VideoFilename(t) == <<"generated_video", t, "mp4">>

\* Line 214 and line 221.
JoinPath(dir, name) == <<dir, name>>

\* Line 131: NamedTemporaryFile(suffix='.txt', delete=False), a fresh name in
\* the system's temporary directory; each run makes one.
ListPath(r) == <<"gettempdir", <<"list", r, "txt">>>>

\* BuildCmd without the os.path.exists test of line 147.
BuildCmdAnyMusic(music) ==
    <<"ffmpeg", "-y", "-f", "concat", "-safe", "0", "-i", "temp_list.name",
      "-c", "copy", "-shortest">>
    \o (IF music # None
        THEN <<"-i", music, "-filter_complex",
               "[0:a][1:a]amix=inputs=2:duration=first:weights=1,0.3[a]",
               "-map", "[a]">>
        ELSE <<>>)
    \o <<"output_path">>

\* Lines 137-154: the media tool's command line; temp_list.name and
\* output_path stand for the two paths of the call.
BuildCmd(music) ==
    <<"ffmpeg", "-y", "-f", "concat", "-safe", "0", "-i", "temp_list.name",
      "-c", "copy", "-shortest">>
    \o (IF music # None /\ PathExists(music)
        THEN <<"-i", music, "-filter_complex",
               "[0:a][1:a]amix=inputs=2:duration=first:weights=1,0.3[a]",
               "-map", "[a]">>
        ELSE <<>>)
    \o <<"output_path">>

\* ExitResult with the except clause swallowing the error: None is returned.
ExitResultSwallowed(p) ==
    IF p.kind = "raise" THEN [kind |-> "return", path |-> NoPath, msg |-> ""] ELSE p

\* Lines 232-238: what leaves the function once the finally clause has run.
ExitResult(p) == p

\* RemoveTree as os.rmdir would do it: nothing inside is removed.
RemoveTreeKeepsFiles(files, dir) == files

\* RemoveTree of the directory above the working directories: every run's
\* files go.
RemoveTreeOfParent(files, dir) == [p \in {} |-> files[p]]

\* shutil.rmtree(temp_dir): the files that stay.
RemoveTree(files, dir) ==
    [p \in {q \in DOMAIN files : q[1] # dir} |-> files[p]]

\* os.unlink(path).
Unlink(files, path) == [p \in DOMAIN files \ {path} |-> files[p]]

\* ListFilesAfterTool with the unlink after the try statement instead of in
\* its finally clause: an exception the except clause does not name skips it.
ListFilesAfterToolNoFinally(files, path, outcome) ==
    IF outcome = "notfound" THEN files ELSE Unlink(files, path)

\* Lines 157-164: the line-list files once subprocess.run has returned or
\* raised; the finally clause unlinks whatever the outcome.
ListFilesAfterTool(files, path, outcome) == Unlink(files, path)

\* A file written (created or overwritten).
WriteFile(files, path, content) ==
    [p \in DOMAIN files \cup {path} |-> IF p = path THEN content ELSE files[p]]

RECURSIVE ConcatParts(_, _)
\* The concat demuxer: the listed files' contents, in the list's order.
ConcatParts(files, paths) ==
    IF paths = <<>> THEN <<>>
    ELSE (IF paths[1] \in DOMAIN files THEN files[paths[1]].parts ELSE <<>>)
         \o ConcatParts(files, Tail(paths))

\* -------------------------------------- pure functions of the handlers

\* str.strip on the titles and stories of the model.
Strip(text) == IF text = "   " THEN "" ELSE text

\* len on a stripped story.
TextLen(text) ==
    IF text = "" THEN 0
    ELSE IF text = LongStory THEN MAX_TEXT_LENGTH + 1
    ELSE Len(text)

\* src/models.py, User.can_create_video.
can_create_video(user) ==
    IF user.subscription_plan = "free" THEN user.videos_created_this_month < 3
    ELSE IF user.subscription_plan = "pro" THEN user.videos_created_this_month < 50
    ELSE IF user.subscription_plan = "business"
        THEN user.videos_created_this_month < 500
    ELSE FALSE

\* The name of a request's story file.
TempStoryFile(video_id) == <<"temp_story", video_id, "txt">>

NoValue == [kind |-> "unset", path |-> NoPath]

\* run_local_video_generation(**params), not awaited: run_local_video_generation
\* is an async def, so the call runs none of its body and its value is a
\* coroutine object.
CallNotAwaited == [kind |-> "coroutine", path |-> NoPath]

\* PathCheck by the truth value of video_path alone, without os.path.exists.
PathCheckTruthy(video_path, files) ==
    IF video_path.kind = "unset" THEN "false" ELSE "true"

\* 'video_path and os.path.exists(video_path)': os.path.exists raises
\* TypeError on a value that is no path, and is whether the file is there
\* on one that is.
PathCheck(video_path, files) ==
    IF video_path.kind = "unset" THEN "false"
    ELSE IF video_path.kind = "coroutine" THEN "TypeError"
    ELSE IF video_path.path \in DOMAIN files THEN "true"
    ELSE "false"

\* UsageAfter with the video counted whatever the outcome.
UsageAfterAnyOutcome(user, check) ==
    [user EXCEPT !.videos_created_this_month = @ + 1]

\* src/main.py line 354, src/api.py line 198: the user once the outcome is
\* recorded; videos_created_this_month is incremented in the 'completed'
\* branch only.
UsageAfter(user, check) ==
    IF check = "true" THEN [user EXCEPT !.videos_created_this_month = @ + 1]
    ELSE user

\* str(e) of that TypeError.
TypeErrorMessage ==
    "stat: path should be string, bytes, os.PathLike or integer, not coroutine"

\* A Video record as the handlers create it.
NewVideo(title, story) ==
    [title |-> title, story_content |-> story, status |-> "pending",
     output_path |-> NoPath, completed_at |-> -1, error_message |-> None]

\* The responses of the two handlers.
Response(status, body) == [status |-> status, body |-> body]
NoResponse == Response(0, "")
LimitResponse(route) ==
    Response(403, IF route = "generate_video"
                  THEN "Monthly video limit reached. Please upgrade your plan."
                  ELSE "Monthly video limit reached")
SuccessResponse(route) ==
    IF route = "generate_video" THEN Response(200, "Video generated successfully")
    ELSE Response(201, "Video created successfully")
FailureResponse == Response(500, "Video generation failed")

\* ----------------------------- pure functions of the account handlers

\* email.strip().lower() on the addresses of the model.
NormaliseEmail(email) == IF email = "Ann@Example.com " THEN AccountEmail ELSE email

\* User.query.filter_by(email=email).first(): the id of the account, or 0.
UserByEmail(table, email) ==
    IF \E id \in DOMAIN table : table[id].email = email
    THEN CHOOSE id \in DOMAIN table : table[id].email = email
    ELSE 0

\* forgot_password's answer with the account's existence shown.
ForgotResponseRevealing(user_id) ==
    IF user_id = 0 THEN Response(404, "No account with that email")
    ELSE Response(200, "If an account with that email exists, a password reset link has been sent")

\* src/auth.py lines 220-221: forgot_password's answer to a POST with an
\* address.
ForgotResponse(user_id) ==
    Response(200, "If an account with that email exists, a password reset link has been sent")

\* src/auth.py lines 21-31, is_valid_password, on the passwords of the model.
is_valid_password(password) ==
    IF password = "short"
    THEN [ok |-> FALSE, error |-> "Password must be at least 8 characters long"]
    ELSE [ok |-> TRUE, error |-> "Password is valid"]

\* PasswordReset(user_id, token): the row send_password_reset_email adds.
NewPasswordReset(user_id, t) ==
    [user_id |-> user_id, expires_at |-> t + RESET_LIFETIME, is_used |-> FALSE]

\* PasswordReset.query.filter_by(token=token, is_used=False).first(): the
\* row's index, or 0.
UnusedReset(table, token) ==
    IF token \in 1..Len(table) /\ ~table[token].is_used THEN token ELSE 0

\* APIKey.query.filter_by(key=api_key, is_active=True).first().
ActiveKey(table, api_key) == api_key \in DOMAIN table /\ table[api_key].is_active

\* ------------------------------------------------------------------- Init

NoFiles == [p \in {} |-> [kind |-> "", run |-> 0, parts |-> <<>>]]
NoContent == [kind |-> "", run |-> 0, parts |-> <<>>]
NoOutcome == [kind |-> "none", path |-> NoPath, msg |-> ""]
NoTool == [cmd |-> NoCmd, outcome |-> "", files |-> <<>>, output |-> NoPath,
           stderr |-> ""]
\* No voice-listing request was made.
NoVoiceResponse == [status |-> -1, hasVoices |-> FALSE, voices |-> <<>>]
\* No chat-completion request was made.
NoLLMResponse == [status |-> -1, json |-> FALSE, hasTranscript |-> FALSE]
NoHist == [voiceResp |-> NoVoiceResponse, llmResp |-> NoLLMResponse,
           fatalStep |-> "", outPath |-> NoPath, assembled |-> NoContent,
           overlapped |-> FALSE]

\* A request not received yet.
NoRequest ==
    [pc |-> "idle", route |-> "", title |-> "", story |-> "", video |-> 0,
     video_path |-> NoValue, response |-> NoResponse]

\* The users of the model: of each plan, one with no video this month, one a
\* video short of the plan's limit and one at it.
Users ==
    {[subscription_plan |-> "free", videos_created_this_month |-> n] : n \in {0, 2, 3}}
    \cup {[subscription_plan |-> "pro", videos_created_this_month |-> n] : n \in {49, 50}}
    \cup {[subscription_plan |-> "business", videos_created_this_month |-> n] :
              n \in {499, 500}}

\* No request has been received.
WebInit ==
    /\ videos = <<>>
    /\ storyFiles = {}
    /\ handler = [q \in Requests |-> NoRequest]
    /\ usage_log = <<>>
    /\ error_log = <<>>

PipelineInit ==
    /\ now = 0
    /\ workDirs = {}
    /\ workFiles = NoFiles
    /\ uploads = NoFiles
    /\ listFiles = NoFiles
    /\ pc = [r \in Runs |-> "idle"]
    /\ background_music = [r \in Runs |-> None]
    /\ temp_dir = [r \in Runs |-> None]
    /\ fallback_voice = [r \in Runs |-> None]
    /\ transcript = [r \in Runs |-> <<>>]
    /\ audio_files = [r \in Runs |-> <<>>]
    /\ video_filename = [r \in Runs |-> NoPath]
    /\ pending = [r \in Runs |-> NoOutcome]
    /\ result = [r \in Runs |-> NoOutcome]
    /\ calls = [r \in Runs |-> <<>>]
    /\ tool = [r \in Runs |-> NoTool]
    /\ hist = [r \in Runs |-> NoHist]

\* An account request not received yet.
NoAuthRequest ==
    [pc |-> "idle", kind |-> "", logged_in |-> FALSE, method |-> "", email |-> "",
     token |-> 0, password |-> "", api_key |-> None, reset |-> 0, seen_at |-> -1,
     ran |-> FALSE, response |-> NoResponse]

\* No account request has been received; no reset token has been issued.
AuthIdle ==
    /\ password_resets = <<>>
    /\ client = [q \in AuthRequests |-> NoAuthRequest]
    /\ changes = <<>>

\* The account is active, and so is its API key.
AuthInit ==
    /\ users = [id \in {1} |-> [email |-> AccountEmail, password |-> "0ldPassword",
                                 is_active |-> TRUE]]
    /\ api_keys = [k \in {"key1"} |-> [user_id |-> 1, is_active |-> TRUE,
                                        last_used |-> -1]]
    /\ AuthIdle

Init ==
    /\ GROQ_API_KEY \in BOOLEAN
    /\ SPEECHIFY_API_KEY \in BOOLEAN
    /\ PipelineInit
    /\ current_user = [subscription_plan |-> "free", videos_created_this_month |-> 0]
    /\ WebInit
    /\ AuthInit

\* The user is any of Users.
InitWeb ==
    /\ GROQ_API_KEY \in BOOLEAN
    /\ SPEECHIFY_API_KEY \in BOOLEAN
    /\ PipelineInit
    /\ current_user \in Users
    /\ WebInit
    /\ AuthInit

\* The account and its API key are active or not; the key is the account's
\* or that of an account that is gone; a reset link has just been mailed
\* to the account.
InitAuth ==
    /\ GROQ_API_KEY = TRUE
    /\ SPEECHIFY_API_KEY = TRUE
    /\ PipelineInit
    /\ current_user = [subscription_plan |-> "free", videos_created_this_month |-> 0]
    /\ WebInit
    /\ \E user_active, key_active \in BOOLEAN, key_owner \in {1, 2} :
        /\ users = [id \in {1} |-> [email |-> AccountEmail, password |-> "0ldPassword",
                                     is_active |-> user_active]]
        /\ api_keys = [k \in {"key1"} |-> [user_id |-> key_owner,
                                            is_active |-> key_active, last_used |-> -1]]
    /\ password_resets = <<NewPasswordReset(1, now)>>
    /\ client = [q \in AuthRequests |-> NoAuthRequest]
    /\ changes = <<>>

\* ---------------------------------------------------------------- actions

\* StepOrder with the transcript asked for before the voices.
StepOrderTranscriptFirst == <<"transcript", "voices", "audio">>

\* Lines 179-209: the steps of the try block before the media tool, in the
\* order of the code.
StepOrder == <<"voices", "transcript", "audio">>

\* The step after a step of StepOrder.
After(step) == StepOrder[(CHOOSE k \in 1..Len(StepOrder) : StepOrder[k] = step) + 1]

InProgress(r) == pc[r] \notin {"idle", "done"}

\* An outbound call as the history keeps it.
Call(api, index, voice_id, resp_status, audio) ==
    [api |-> api, index |-> index, voice_id |-> voice_id, status |-> resp_status,
     audio |-> audio]

\* Fail with the error caught inside the step, which is then tried again.
FailAndRetry(r, step, msg) ==
    /\ pending' = [pending EXCEPT ![r] = [kind |-> "raise", path |-> NoPath, msg |-> msg]]
    /\ hist' = [hist EXCEPT ![r].fatalStep = step]
    /\ pc' = pc

\* Lines 232-234: the except clause prints and re-raises; the finally clause
\* is next.
Fail(r, step, msg) ==
    /\ pending' = [pending EXCEPT ![r] = [kind |-> "raise", path |-> NoPath, msg |-> msg]]
    /\ hist' = [hist EXCEPT ![r].fatalStep = step]
    /\ pc' = [pc EXCEPT ![r] = "finally"]

\* The wall clock passes a second.
Tick ==
    /\ now < MaxClock
    /\ now' = now + 1
    /\ UNCHANGED <<auth, web, config, fs, pc, locals, pending, result, calls, tool, hist>>

\* Lines 166-176: the call, its argument check, mkdtemp and the voice directory.
Invoke(r, env) ==
    /\ pc[r] = "idle"
    /\ \E given \in BOOLEAN, music \in env.music :
        /\ background_music' = [background_music EXCEPT ![r] = music]
        /\ IF ~given
           THEN /\ pc' = [pc EXCEPT ![r] = "done"]
                /\ result' = [result EXCEPT ![r] =
                       [kind |-> "raise", path |-> NoPath,
                        msg |-> "Title and story are required"]]
                /\ hist' = [hist EXCEPT ![r].fatalStep = "arguments"]
                /\ UNCHANGED <<temp_dir, workDirs>>
           ELSE /\ \E d \in TmpNames \ {temp_dir[q] : q \in Runs} :
                    /\ temp_dir' = [temp_dir EXCEPT ![r] = d]
                    /\ workDirs' = workDirs \cup {d}
                /\ pc' = [pc EXCEPT ![r] = StepOrder[1]]
                /\ hist' = [q \in Runs |->
                       IF q = r \/ InProgress(q)
                       THEN [hist[q] EXCEPT !.overlapped =
                                @ \/ \E o \in Runs \ {r} : InProgress(o)]
                       ELSE hist[q]]
                /\ UNCHANGED result
    /\ UNCHANGED <<auth, web, config, now, workFiles, uploads, listFiles, fallback_voice,
                   transcript, audio_files, video_filename, pending, calls, tool>>

\* Lines 179-189: the voice listing, and its except clause.
GetVoices(r, env) ==
    /\ pc[r] = "voices"
    /\ \E resp \in env.voices :
        /\ fallback_voice' = [fallback_voice EXCEPT ![r] =
               ResolveFallback(SPEECHIFY_API_KEY, resp)]
        /\ hist' = [hist EXCEPT ![r].voiceResp =
               IF SPEECHIFY_API_KEY THEN resp ELSE @]
        /\ calls' = [calls EXCEPT ![r] =
               IF SPEECHIFY_API_KEY
               THEN Append(@, Call("voices", -1, "", resp.status, FALSE))
               ELSE @]
    /\ pc' = [pc EXCEPT ![r] = After("voices")]
    /\ UNCHANGED <<auth, web, config, now, fs, background_music, temp_dir, transcript,
                   audio_files, video_filename, pending, result, tool>>

\* Lines 191-193: generate_transcript.
Transcribe(r, env) ==
    /\ pc[r] = "transcript"
    /\ IF ~GROQ_API_KEY
       THEN /\ Fail(r, "transcript", "GROQ_API_KEY not configured")
            /\ UNCHANGED <<transcript, calls>>
       ELSE \E resp \in env.llm :
            LET answer == [status |-> resp.status, json |-> resp.json,
                           hasTranscript |-> resp.hasTranscript]
            IN
            /\ calls' = [calls EXCEPT ![r] =
                   Append(@, Call("llm", -1, "", resp.status, FALSE))]
            /\ IF GenerateTranscript(resp).raised
               THEN /\ pending' = [pending EXCEPT ![r] =
                           [kind |-> "raise", path |-> NoPath,
                            msg |-> GenerateTranscript(resp).msg]]
                    /\ hist' = [hist EXCEPT ![r].fatalStep = "transcript",
                                            ![r].llmResp = answer]
                    /\ pc' = [pc EXCEPT ![r] = "finally"]
                    /\ UNCHANGED transcript
               ELSE /\ transcript' = [transcript EXCEPT ![r] =
                           GenerateTranscript(resp).value]
                    /\ hist' = [hist EXCEPT ![r].llmResp = answer]
                    /\ pc' = [pc EXCEPT ![r] = After("transcript")]
                    /\ UNCHANGED pending
    /\ UNCHANGED <<auth, web, config, now, fs, background_music, temp_dir, fallback_voice,
                   audio_files, video_filename, result, tool>>

\* Lines 198-209: one turn of the loop, generate_audio included. The loop's
\* index i is the number of files appended so far.
SynthesizeLine(r, env) ==
    /\ pc[r] = "audio"
    /\ Len(audio_files[r]) < Len(transcript[r])
    /\ LET i == Len(audio_files[r])
           entry == transcript[r][i + 1]
           voice_id == BindVoice(entry.agentId, fallback_voice[r])
           audio_path == AudioPath(temp_dir[r], entry.agentId, i)
       IN IF entry.agentId = Missing \/ entry.text = Missing
          THEN /\ Fail(r, "audio", "KeyError")
               /\ UNCHANGED <<calls, workFiles, audio_files>>
          ELSE IF ~SPEECHIFY_API_KEY
          THEN /\ Fail(r, "audio", "SPEECHIFY_API_KEY not configured")
               /\ UNCHANGED <<calls, workFiles, audio_files>>
          ELSE \E resp \in env.tts :
               /\ calls' = [calls EXCEPT ![r] =
                      Append(@, Call("tts", i, RequestVoice(voice_id), resp.status,
                                     resp.audio))]
               /\ IF SynthesisError(resp) # ""
                  THEN /\ Fail(r, "audio", SynthesisError(resp))
                       /\ UNCHANGED <<workFiles, audio_files>>
                  ELSE /\ workFiles' = WriteFile(workFiles, audio_path,
                              [kind |-> "audio", run |-> r, parts |-> <<i>>])
                       /\ audio_files' = [audio_files EXCEPT ![r] =
                              Append(@, audio_path)]
                       /\ UNCHANGED <<pc, pending, hist>>
    /\ UNCHANGED <<auth, web, config, now, workDirs, uploads, listFiles, background_music,
                   temp_dir, fallback_voice, transcript, video_filename, result,
                   tool>>

\* Lines 211-214: the loop is over; the output is named after the clock.
NameVideo(r) ==
    /\ pc[r] = "audio"
    /\ Len(audio_files[r]) = Len(transcript[r])
    /\ video_filename' = [video_filename EXCEPT ![r] = VideoFilename(now)]
    /\ pc' = [pc EXCEPT ![r] = "assemble"]
    /\ UNCHANGED <<auth, web, config, now, fs, background_music, temp_dir, fallback_voice,
                   transcript, audio_files, pending, result, calls, tool, hist>>

\* Lines 217 and 131-134: create_video_from_audio is entered and writes its
\* line-list file.
WriteList(r) ==
    /\ pc[r] = "assemble"
    /\ listFiles' = WriteFile(listFiles, ListPath(r),
           [kind |-> "list", run |-> r, parts |-> <<>>])
    /\ pc' = [pc EXCEPT ![r] = "tool"]
    /\ UNCHANGED <<auth, web, config, now, workDirs, workFiles, uploads, locals, pending,
                   result, calls, tool, hist>>

\* Lines 137-164, 219 and 229-230: the command, subprocess.run, the unlink of
\* the line-list file, and the test of the result. A tool that never exits
\* leaves the run inside subprocess.run.
CreateVideo(r, env) ==
    /\ pc[r] = "tool"
    /\ LET video_path == JoinPath(temp_dir[r], video_filename[r])
           content == [kind |-> "video", run |-> r,
                       parts |-> ConcatParts(workFiles, audio_files[r])]
       IN \E outcome \in env.tool :
          /\ tool' = [tool EXCEPT ![r] =
                 [cmd |-> BuildCmd(background_music[r]), outcome |-> outcome,
                  files |-> audio_files[r], output |-> video_path,
                  stderr |-> ToolStderr(outcome)]]
          /\ IF outcome = "never"
             THEN /\ pc' = [pc EXCEPT ![r] = "running"]
                  /\ UNCHANGED <<workFiles, listFiles, pending, hist>>
             ELSE IF outcome = "exit0"
             THEN /\ workFiles' = WriteFile(workFiles, video_path, content)
                  /\ listFiles' = ListFilesAfterTool(listFiles, ListPath(r), outcome)
                  /\ hist' = [hist EXCEPT ![r].assembled = content]
                  /\ pc' = [pc EXCEPT ![r] = "copy"]
                  /\ UNCHANGED pending
             ELSE /\ Fail(r, "assemble",
                          IF outcome = "notfound" THEN "FileNotFoundError"
                          ELSE "Failed to create video")
                  /\ listFiles' = ListFilesAfterTool(listFiles, ListPath(r), outcome)
                  /\ UNCHANGED workFiles
    /\ UNCHANGED <<auth, web, config, now, workDirs, uploads, locals, result, calls>>

\* Lines 220-228: the copy into uploads, and the return it is followed by.
CopyToUploads(r) ==
    /\ pc[r] = "copy"
    /\ LET video_path == JoinPath(temp_dir[r], video_filename[r])
           final_path == JoinPath("uploads", video_filename[r])
       IN \E copied \in BOOLEAN :
          IF copied
          THEN /\ uploads' = WriteFile(uploads, final_path, workFiles[video_path])
               /\ pending' = [pending EXCEPT ![r] =
                      [kind |-> "return", path |-> final_path, msg |-> ""]]
               /\ hist' = [hist EXCEPT ![r].outPath = final_path]
               /\ pc' = [pc EXCEPT ![r] = "finally"]
          ELSE /\ Fail(r, "copy", "OSError")
               /\ UNCHANGED uploads
    /\ UNCHANGED <<auth, web, config, now, workDirs, workFiles, listFiles, locals, result,
                   calls, tool>>

\* Lines 235-238: the finally clause, then the function is left.
Cleanup(r) ==
    /\ pc[r] = "finally"
    /\ workDirs' = workDirs \ {temp_dir[r]}
    /\ workFiles' = RemoveTree(workFiles, temp_dir[r])
    /\ result' = [result EXCEPT ![r] = ExitResult(pending[r])]
    /\ pc' = [pc EXCEPT ![r] = "done"]
    /\ UNCHANGED <<auth, web, config, now, uploads, listFiles, locals, pending, calls, tool,
                   hist>>

\* One step of run r, its outside being env.
RunStep(r, env) ==
    \/ Invoke(r, env)
    \/ GetVoices(r, env)
    \/ Transcribe(r, env)
    \/ SynthesizeLine(r, env)
    \/ NameVideo(r)
    \/ WriteList(r)
    \/ CreateVideo(r, env)
    \/ CopyToUploads(r)
    \/ Cleanup(r)

\* One run.
Next == Tick \/ RunStep(1, Env)

Spec == Init /\ [][Next]_vars

\* Every run, concurrently.
NextConcurrent == Tick \/ \E r \in Runs : RunStep(r, EnvConcurrent)

SpecConcurrent == Init /\ [][NextConcurrent]_vars

\* ------------------------------------------------- the generate handlers

pipeline == <<config, now, fs, pc, locals, pending, result, calls, tool, hist>>

\* src/main.py lines 281-312, src/api.py lines 138-165: the plan limit, the
\* input checks, and the Video record committed as 'pending'.
ReceiveRequest(q) ==
    /\ handler[q].pc = "idle"
    /\ \E route \in Routes, title \in Titles, story \in Stories :
        LET received == [handler[q] EXCEPT !.route = route, !.title = Strip(title),
                                           !.story = Strip(story)]
            Reject(response) ==
                /\ handler' = [handler EXCEPT ![q] =
                       [received EXCEPT !.pc = "returned", !.response = response]]
                /\ UNCHANGED videos
        IN IF ~can_create_video(current_user) THEN Reject(LimitResponse(route))
           ELSE IF Strip(title) = "" \/ Strip(story) = ""
           THEN Reject(Response(400, "Title and story are required"))
           ELSE IF TextLen(Strip(story)) > MAX_TEXT_LENGTH
           THEN Reject(Response(400, "Story too long"))
           ELSE /\ videos' = Append(videos, NewVideo(Strip(title), Strip(story)))
                /\ handler' = [handler EXCEPT ![q] =
                       [received EXCEPT !.pc = "try", !.video = Len(videos) + 1]]
    /\ UNCHANGED <<auth, pipeline, current_user, storyFiles, usage_log, error_log>>

\* src/main.py lines 314-324, src/api.py lines 167-177: the story file.
WriteStoryFile(q) ==
    /\ handler[q].pc = "try"
    /\ storyFiles' = storyFiles \cup {TempStoryFile(handler[q].video)}
    /\ handler' = [handler EXCEPT ![q].pc = "call"]
    /\ UNCHANGED <<auth, pipeline, current_user, videos, usage_log, error_log>>

\* src/main.py lines 326-335, src/api.py lines 179-188: params carries filter,
\* voice, background_video and background_music, and the call is not awaited.
CallPipeline(q) ==
    /\ handler[q].pc = "call"
    /\ handler' = [handler EXCEPT ![q].video_path = CallNotAwaited, ![q].pc = "check"]
    /\ UNCHANGED <<auth, pipeline, current_user, videos, storyFiles, usage_log, error_log>>

\* src/main.py lines 337-388, src/api.py lines 190-238: the three ends of the
\* try statement.
RecordOutcome(q) ==
    /\ handler[q].pc = "check"
    /\ LET h == handler[q]
           check == PathCheck(h.video_path, uploads)
       IN IF check = "true"
          THEN /\ videos' = [videos EXCEPT ![h.video].status = "completed",
                                           ![h.video].output_path = h.video_path.path,
                                           ![h.video].completed_at = now]
               /\ usage_log' = Append(usage_log, h.video)
               /\ storyFiles' = storyFiles \ {TempStoryFile(h.video)}
               /\ handler' = [handler EXCEPT ![q].pc = "returned",
                                             ![q].response = SuccessResponse(h.route)]
               /\ UNCHANGED error_log
          ELSE IF check = "false"
          THEN /\ videos' = [videos EXCEPT ![h.video].status = "failed",
                      ![h.video].error_message = "Video generation failed"]
               /\ handler' = [handler EXCEPT ![q].pc = "returned",
                                             ![q].response = FailureResponse]
               /\ UNCHANGED <<usage_log, storyFiles, error_log>>
          ELSE /\ videos' = [videos EXCEPT ![h.video].status = "failed",
                      ![h.video].error_message = TypeErrorMessage]
               /\ error_log' = Append(error_log, TypeErrorMessage)
               /\ handler' = [handler EXCEPT ![q].pc = "returned",
                                             ![q].response = FailureResponse]
               /\ UNCHANGED <<usage_log, storyFiles>>
    /\ current_user' = UsageAfter(current_user, PathCheck(handler[q].video_path, uploads))
    /\ UNCHANGED <<auth, pipeline>>

\* The generate requests, concurrently; nothing awaits the coroutine objects
\* the handlers make, so no run starts.
NextWeb ==
    \E q \in Requests :
        \/ ReceiveRequest(q)
        \/ WriteStoryFile(q)
        \/ CallPipeline(q)
        \/ RecordOutcome(q)

SpecWeb == InitWeb /\ [][NextWeb]_vars

\* -------------------------------------------------- the account handlers

\* More than the lifetime of a reset token passes.
PassLifetime ==
    /\ now < MaxClock * (RESET_LIFETIME + 1)
    /\ now' = now + RESET_LIFETIME + 1
    /\ UNCHANGED <<auth, web, config, fs, pc, locals, pending, result, calls, tool, hist>>

\* src/auth.py lines 205-221 and 284-303: a POST to forgot_password, with
\* send_password_reset_email. send_email catches every error of the mail
\* transport, so the mail's fate changes nothing here.
ForgotPassword(q) ==
    /\ client[q].pc = "idle"
    /\ \E logged_in \in BOOLEAN, email \in Emails :
        LET user_id == UserByEmail(users, NormaliseEmail(email))
            received == [client[q] EXCEPT !.kind = "forgot", !.method = "POST",
                                          !.logged_in = logged_in, !.email = email,
                                          !.pc = "returned"]
        IN IF logged_in
           THEN /\ client' = [client EXCEPT ![q] =
                       [received EXCEPT !.response = Response(302, "main.dashboard")]]
                /\ UNCHANGED password_resets
           ELSE IF NormaliseEmail(email) = ""
           THEN /\ client' = [client EXCEPT ![q] =
                       [received EXCEPT !.response = Response(400, "Email is required")]]
                /\ UNCHANGED password_resets
           ELSE IF user_id # 0
           THEN /\ password_resets' =
                       Append(password_resets, NewPasswordReset(user_id, now))
                /\ client' = [client EXCEPT ![q] =
                       [received EXCEPT !.reset = Len(password_resets) + 1,
                                        !.response = ForgotResponse(user_id)]]
           ELSE /\ client' = [client EXCEPT ![q] =
                       [received EXCEPT !.response = ForgotResponse(user_id)]]
                /\ UNCHANGED password_resets
    /\ UNCHANGED <<pipeline, web, users, api_keys, changes>>

\* src/auth.py lines 226-250: reset_password up to the password's
\* validation. Token 0 is a token no row has.
ResetPasswordCheck(q) ==
    /\ client[q].pc = "idle"
    /\ \E logged_in \in BOOLEAN, method \in {"GET", "POST"},
          token \in 0..Len(password_resets) :
        \E password \in (IF method = "GET" THEN {""} ELSE Passwords) :
        LET reset == UnusedReset(password_resets, token)
            received == [client[q] EXCEPT !.kind = "reset", !.method = method,
                                          !.logged_in = logged_in, !.token = token,
                                          !.password = password, !.seen_at = now]
            Answer(response) ==
                client' = [client EXCEPT ![q] =
                    [received EXCEPT !.pc = "returned", !.response = response]]
        IN IF logged_in THEN Answer(Response(302, "main.dashboard"))
           ELSE IF reset = 0 THEN Answer(Response(302, "Invalid or expired reset link"))
           ELSE IF password_resets[reset].expires_at < now
           THEN Answer(Response(302, "Reset link has expired"))
           ELSE IF method = "GET" THEN Answer(Response(200, "auth/reset_password.html"))
           ELSE IF ~is_valid_password(password).ok
           THEN Answer(Response(400, is_valid_password(password).error))
           ELSE client' = [client EXCEPT ![q] =
                    [received EXCEPT !.pc = "commit", !.reset = reset]]
    /\ UNCHANGED <<pipeline, web, users, password_resets, api_keys, changes>>

\* src/auth.py lines 252-259: the new password and the used token, committed.
ResetPasswordCommit(q) ==
    /\ client[q].pc = "commit"
    /\ LET reset == client[q].reset
       IN /\ users' = [users EXCEPT ![password_resets[reset].user_id].password =
                           client[q].password]
          /\ password_resets' = [password_resets EXCEPT ![reset].is_used = TRUE]
          /\ changes' = Append(changes, [token |-> reset, at |-> now, by |-> q])
    /\ client' = [client EXCEPT ![q].pc = "returned",
                                ![q].response = Response(200, "Password reset successful")]
    /\ UNCHANGED <<pipeline, web, api_keys>>

\* src/api.py lines 32-58: require_api_key around a handler.
RequireApiKey(q) ==
    /\ client[q].pc = "idle"
    /\ \E api_key \in ApiKeyHeaders :
        LET received == [client[q] EXCEPT !.kind = "api", !.api_key = api_key,
                                          !.pc = "returned"]
            Answer(response) ==
                client' = [client EXCEPT ![q] = [received EXCEPT !.response = response]]
        IN IF api_key = None
           THEN Answer(Response(401, "API key required")) /\ UNCHANGED api_keys
           ELSE IF ~ActiveKey(api_keys, api_key)
           THEN Answer(Response(401, "Invalid API key")) /\ UNCHANGED api_keys
           ELSE /\ api_keys' = [api_keys EXCEPT ![api_key].last_used = now]
                /\ IF \/ api_keys[api_key].user_id \notin DOMAIN users
                      \/ ~users[api_keys[api_key].user_id].is_active
                   THEN Answer(Response(401, "User account inactive"))
                   ELSE client' = [client EXCEPT ![q] =
                            [received EXCEPT !.ran = TRUE,
                                             !.response = Response(200, "handler")]]
    /\ UNCHANGED <<pipeline, web, users, password_resets, changes>>

\* The account requests, concurrently.
NextAuth ==
    \/ PassLifetime
    \/ \E q \in AuthRequests :
        \/ ForgotPassword(q)
        \/ ResetPasswordCheck(q)
        \/ ResetPasswordCommit(q)
        \/ RequireApiKey(q)

SpecAuth == InitAuth /\ [][NextAuth]_vars

\* ----------------------------------------------------------------- claims

\* The run was called with a title and a story and has made its directory.
Started(r) == temp_dir[r] # None

\* The outbound calls of run r to one endpoint.
CallsTo(r, api) == {k \in 1..Len(calls[r]) : calls[r][k].api = api}

\* A speech request of run r was answered with a non-200 status (or not at
\* all), or without audio_data.
TtsFailed(r) ==
    \E k \in CallsTo(r, "tts") : calls[r][k].status # 200 \/ ~calls[r][k].audio

\* The voice-listing step of run r is over and failed: no key, no answer, a
\* non-200 status, or a first voice without voice_id.
VoiceListingFailed(r) ==
    /\ Started(r)
    /\ pc[r] # "voices"
    /\ \/ ~SPEECHIFY_API_KEY
       \/ hist[r].voiceResp.status # 200
       \/ /\ hist[r].voiceResp.voices # <<>>
          /\ hist[r].voiceResp.voices[1].voice_id = Missing

\* C1: once a run that made a working directory has ended, on whatever path,
\* the directory and every file inside it are gone.
C1_WorkDirRemoved ==
    \A r \in Runs :
        (pc[r] = "done" /\ Started(r)) =>
            /\ temp_dir[r] \notin workDirs
            /\ \A p \in DOMAIN workFiles : p[1] # temp_dir[r]

\* A run that wrote an audio file, then failed at the next line, has ended.
C1_Witness ==
    \E r \in Runs :
        /\ pc[r] = "done" /\ Started(r)
        /\ Len(audio_files[r]) = 1
        /\ hist[r].fatalStep = "audio"

\* C2: the audio files handed to the media tool are as many as the transcript
\* has lines, pairwise distinct, the i-th named after the i-th line's speaker
\* and index and holding the i-th line's audio.
C2_AudioFilesMatchTranscript ==
    \A r \in Runs :
        tool[r].cmd # NoCmd =>
            /\ Len(tool[r].files) = Len(transcript[r])
            /\ \A i, j \in 1..Len(tool[r].files) :
                   i # j => tool[r].files[i] # tool[r].files[j]
            /\ \A i \in 1..Len(tool[r].files) :
                   tool[r].files[i] =
                       <<temp_dir[r], <<transcript[r][i].agentId, i - 1, "mp3">>>>
            /\ tool[r].outcome = "exit0" =>
                   hist[r].assembled.parts = [i \in 1..Len(transcript[r]) |-> i - 1]

\* The media tool got the files of two lines of the same speaker.
C2_Witness ==
    \E r \in Runs :
        /\ tool[r].outcome = "exit0"
        /\ Len(transcript[r]) = 2
        /\ transcript[r][1].agentId = transcript[r][2].agentId

\* C3: a failed speech request means no media tool invocation, no file in
\* the output directory, and a run that ends in failure.
C3_SynthesisFailureAborts ==
    \A r \in Runs :
        TtsFailed(r) =>
            /\ tool[r] = NoTool
            /\ hist[r].outPath = NoPath
            /\ \A p \in DOMAIN uploads : uploads[p].run # r
            /\ pc[r] \in {"finally", "done"}
            /\ pc[r] = "done" => result[r].kind = "raise"

\* The second line's request failed after the first line's file was written.
C3_Witness ==
    \E r \in Runs :
        /\ TtsFailed(r)
        /\ Len(audio_files[r]) = 1
        /\ pc[r] = "done"

C5_VoiceListingNonFatal ==
    \A r \in Runs :
        VoiceListingFailed(r) =>
            /\ fallback_voice[r] = "en_us_002"
            /\ hist[r].fatalStep \in {"", "transcript", "audio", "assemble", "copy"}
            /\ (pc[r] # "transcript" /\ GROQ_API_KEY) => CallsTo(r, "llm") # {}
            /\ \A k \in CallsTo(r, "tts") :
                   transcript[r][calls[r][k].index + 1].agentId \notin Personas
                       => calls[r][k].voice_id = "en_us_002"
            /\ (pc[r] = "done" /\ hist[r].fatalStep = "") => result[r].kind = "return"

\* The voice listing answered 500 and the run succeeded, a speaker outside
\* the persona table having been synthesized.
C5_Witness ==
    \E r \in Runs :
        /\ VoiceListingFailed(r)
        /\ hist[r].voiceResp.status = 500
        /\ pc[r] = "done"
        /\ result[r].kind = "return"
        /\ \E k \in CallsTo(r, "tts") : calls[r][k].voice_id = "en_us_002"

\* C6 as claimed: a transcript with a speaker other than the two requested
\* fails the run, with no speech request and no audio file.
C6_UnknownSpeakerRejected ==
    \A r \in Runs :
        (\E i \in 1..Len(transcript[r]) :
            transcript[r][i].agentId \notin RequestedSpeakers) =>
            /\ CallsTo(r, "tts") = {}
            /\ audio_files[r] = <<>>
            /\ pc[r] \in {"finally", "done"}
            /\ hist[r].fatalStep = "transcript"

\* C7 as claimed: with a key absent, a started run makes no outbound call and
\* ends with the configuration error.
C7_MissingKeyNoNetworkCall ==
    \A r \in Runs :
        (Started(r) /\ (~GROQ_API_KEY \/ ~SPEECHIFY_API_KEY)) =>
            /\ calls[r] = <<>>
            /\ pc[r] = "done" =>
                   /\ result[r].kind = "raise"
                   /\ result[r].msg \in {"GROQ_API_KEY not configured",
                                         "SPEECHIFY_API_KEY not configured"}

\* C8 as claimed: two runs that overlapped in time write different paths of
\* the output directory.
C8_DistinctOutputPaths ==
    \A r1, r2 \in Runs :
        (/\ r1 # r2
         /\ hist[r1].overlapped /\ hist[r2].overlapped
         /\ hist[r1].outPath # NoPath /\ hist[r2].outPath # NoPath)
        => hist[r1].outPath # hist[r2].outPath

\* C9 as claimed: a run that returned a path had the media tool exit 0 with
\* its output in place, and the path names a file of the output directory
\* that holds the assembled file, the working directory being gone.
C9_SuccessMeansDurableCopy ==
    \A r \in Runs :
        (pc[r] = "done" /\ result[r].kind = "return") =>
            /\ tool[r].outcome = "exit0"
            /\ hist[r].assembled # NoContent
            /\ result[r].path[1] = "uploads"
            /\ result[r].path \in DOMAIN uploads
            /\ uploads[result[r].path] = hist[r].assembled
            /\ temp_dir[r] \notin workDirs

\* C10: with a background-music path that names no file, the media tool gets
\* the concat-mode command, the one it gets with no background music.
C10_MissingMusicIsConcat ==
    \A r \in Runs :
        (tool[r].cmd # NoCmd /\ ~PathExists(background_music[r])) =>
            tool[r].cmd = <<"ffmpeg", "-y", "-f", "concat", "-safe", "0", "-i",
                            "temp_list.name", "-c", "copy", "-shortest",
                            "output_path">>

\* A run called with a music path that names no file has succeeded.
C10_Witness ==
    \E r \in Runs :
        /\ background_music[r] = "music_not_on_disk.mp3"
        /\ tool[r].outcome = "exit0"
        /\ pc[r] = "done"
        /\ result[r].kind = "return"

\* C11: once an invocation of create_video_from_audio has returned or raised
\* (the tool exited 0, exited non-zero, or could not be started), the
\* line-list file it wrote is gone; the file exists only inside the call.
C11_ListFileRemoved ==
    \A r \in Runs :
        /\ tool[r].outcome \in {"exit0", "exit0_nofile", "nonzero", "notfound"}
               => ListPath(r) \notin DOMAIN listFiles
        /\ ListPath(r) \in DOMAIN listFiles => pc[r] \in {"tool", "running"}

\* The media tool could not be started, and the run has ended.
C11_Witness ==
    \E r \in Runs :
        /\ tool[r].outcome = "notfound"
        /\ pc[r] = "done"
        /\ listFiles = NoFiles

\* The phase of a run, as the state machine of the design names it.
Phase(r) ==
    IF pc[r] = "idle" THEN "NotStarted"
    ELSE IF pending[r].kind = "raise" \/ result[r].kind = "raise" THEN "Failed"
    ELSE IF pc[r] \in {"voices", "transcript"} THEN "Created"
    ELSE IF pc[r] = "audio" THEN "TranscriptReady"
    ELSE IF pc[r] \in {"assemble", "tool", "running"} THEN "AudioReady"
    ELSE IF pc[r] = "copy" THEN "Assembled"
    ELSE "Done"

PhaseRank(phase) ==
    CASE phase = "NotStarted" -> 0
      [] phase = "Created" -> 1
      [] phase = "TranscriptReady" -> 2
      [] phase = "AudioReady" -> 3
      [] phase = "Assembled" -> 4
      [] phase = "Done" -> 5
      [] phase = "Failed" -> 6

\* C12: a step keeps a run's phase, moves it to the next phase of Created,
\* TranscriptReady, AudioReady, Assembled, Done, or moves it from a phase
\* other than Done to Failed; Done and Failed are never left, and a step
\* taken in Failed makes no outbound call, invokes no media tool and writes
\* nothing to the output directory.
C12_PhaseOrder ==
    [][\A r \in Runs :
        /\ \/ Phase(r)' = Phase(r)
           \/ Phase(r) \notin {"Done", "Failed"} /\ Phase(r)' = "Failed"
           \/ /\ Phase(r)' # "Failed"
              /\ PhaseRank(Phase(r)') = PhaseRank(Phase(r)) + 1
        /\ Phase(r) = "Failed" =>
              /\ calls'[r] = calls[r]
              /\ tool'[r] = tool[r]
              /\ hist'[r].outPath = hist[r].outPath
              /\ \A p \in DOMAIN uploads' :
                     uploads'[p].run = r => (p \in DOMAIN uploads /\ uploads'[p] = uploads[p])
      ]_vars

\* A run failed in AudioReady (the media tool exited non-zero) and has ended.
C12_Witness ==
    \E r \in Runs :
        /\ pc[r] = "done"
        /\ Phase(r) = "Failed"
        /\ tool[r].outcome = "nonzero"

\* C13 as claimed: with both keys configured, a generate request of a user
\* under the plan limit, with a title and a story of at most
\* MAX_TEXT_LENGTH characters, has, when its handler returns, had the
\* pipeline run, its Video record 'completed' with
\* output_path set, and a success response.
C13_ValidRequestCompletes ==
    \A q \in Requests :
        (/\ GROQ_API_KEY /\ SPEECHIFY_API_KEY
         /\ handler[q].pc = "returned" /\ handler[q].video # 0) =>
            /\ \E r \in Runs : temp_dir[r] # None
            /\ videos[handler[q].video].status = "completed"
            /\ videos[handler[q].video].output_path # NoPath
            /\ handler[q].response.status \in {200, 201}

\* C14 as claimed: a run that has not ended can always take a step, whatever
\* its collaborators do; it never waits without end.
C14_RunNeverStuck ==
    \A r \in Runs : InProgress(r) => ENABLED RunStep(r, Env)

\* The intermediate files that exist, each with the run that wrote it.
IntermediateFiles ==
    {[path |-> p, run |-> workFiles[p].run] : p \in DOMAIN workFiles}
    \cup {[path |-> p, run |-> listFiles[p].run] : p \in DOMAIN listFiles}

\* C15 as claimed: every intermediate file a run writes lies inside its own
\* working directory.
C15_OnlyOwnWorkDir ==
    \A f \in IntermediateFiles : f.path[1] = temp_dir[f.run]

\* C15, amended: two runs have different working directories; a run's audio
\* and video files lie inside its own working directory and its line-list
\* file is the file of its own name in the system's temporary directory; the
\* media tool is given files of the run's own directory only; and the files
\* of a run in progress stay in place whatever the other runs clean up.
C15_RunsIsolated ==
    /\ \A r1, r2 \in Runs :
           (r1 # r2 /\ Started(r1) /\ Started(r2)) => temp_dir[r1] # temp_dir[r2]
    /\ \A f \in IntermediateFiles :
           f.path[1] = temp_dir[f.run] \/ f.path = <<"gettempdir", <<"list", f.run, "txt">>>>
    /\ \A r \in Runs :
           /\ \A i \in 1..Len(tool[r].files) : tool[r].files[i][1] = temp_dir[r]
           /\ tool[r].cmd # NoCmd => tool[r].output[1] = temp_dir[r]
           /\ pc[r] \in {"audio", "assemble", "tool", "running", "copy"} =>
                  \A i \in 1..Len(audio_files[r]) :
                      /\ audio_files[r][i] \in DOMAIN workFiles
                      /\ workFiles[audio_files[r][i]] =
                             [kind |-> "audio", run |-> r, parts |-> <<i - 1>>]
           /\ pc[r] = "copy" =>
                  /\ <<temp_dir[r], video_filename[r]>> \in DOMAIN workFiles
                  /\ workFiles[<<temp_dir[r], video_filename[r]>>] = hist[r].assembled

\* A run has cleaned up while the other, started before that, has an audio
\* file in its directory.
C15_Witness ==
    \E r1, r2 \in Runs :
        /\ r1 # r2
        /\ pc[r1] = "done" /\ Started(r1) /\ hist[r1].overlapped
        /\ pc[r2] \in {"audio", "assemble", "tool", "copy"}
        /\ Len(audio_files[r2]) >= 1

StepRank(api) == CASE api = "voices" -> 1 [] api = "llm" -> 2 [] api = "tts" -> 3

C17_MalformedTranscriptFails ==
    \A r \in Runs :
        (/\ hist[r].llmResp.status = 200
         /\ ~hist[r].llmResp.json \/ ~hist[r].llmResp.hasTranscript) =>
            /\ hist[r].fatalStep = "transcript"
            /\ CallsTo(r, "tts") = {}
            /\ tool[r] = NoTool

IsTts(c) == c.api = "tts"

\* The speech requests of run r, in the order they were made.
TtsCalls(r) == SelectSeq(calls[r], IsTts)

TtsOk(c) == c.status = 200 /\ c.audio

\* C18: the k-th speech request of a run is the request for line k - 1, so no
\* line is asked for twice; every request but the last has succeeded, and
\* the file of every request that succeeded is written before the next is
\* made; a failed request is the last one.
C18_SynthesisSequentialNoRetry ==
    \A r \in Runs :
        /\ Len(TtsCalls(r)) <= Len(transcript[r])
        /\ \A k \in 1..Len(TtsCalls(r)) :
               /\ TtsCalls(r)[k].index = k - 1
               /\ k < Len(TtsCalls(r)) => TtsOk(TtsCalls(r)[k])
        /\ Len(audio_files[r]) =
               Cardinality({k \in 1..Len(TtsCalls(r)) : TtsOk(TtsCalls(r)[k])})
        /\ pc[r] \in {"audio", "assemble", "tool", "running", "copy"} =>
               \A i \in 1..Len(audio_files[r]) : audio_files[r][i] \in DOMAIN workFiles

\* Two speech requests were made, the second failed, and the run has ended.
C18_Witness ==
    \E r \in Runs :
        /\ Len(TtsCalls(r)) = 2
        /\ TtsOk(TtsCalls(r)[1])
        /\ ~TtsOk(TtsCalls(r)[2])
        /\ pc[r] = "done"

\* The fallback voice of the voice-catalog step: the first listed voice, or
\* 'en_us_002' when the listing failed or listed no voice.
CatalogFallback(r) ==
    IF VoiceListingFailed(r) \/ hist[r].voiceResp.voices = <<>> THEN "en_us_002"
    ELSE hist[r].voiceResp.voices[1].voice_id

\* The persona table's value for a speaker, when it is one to use.
TableVoice(agent) ==
    IF agent \in Personas /\ VOICE_IDS[agent] # "" /\ ~StartsWithYour(VOICE_IDS[agent])
    THEN VOICE_IDS[agent]
    ELSE ""

C20_BindingBeforeSynthesis ==
    \A r \in Runs :
        (\E i \in 1..Len(transcript[r]) :
            transcript[r][i].agentId = Missing \/ transcript[r][i].text = Missing)
        => CallsTo(r, "tts") = {}

\* Whether token a is followed by token b somewhere in a command line.
HasPair(cmd, a, b) == \E i \in 1..(Len(cmd) - 1) : cmd[i] = a /\ cmd[i + 1] = b

\* C21 as claimed: with background music that exists on disk the command
\* carries the two-input amix filter mapped to the output and does not carry
\* the stream-copy option '-c copy'; without it the command is exactly the
\* concat-mode command ending with the output path.
C21_MixModeInsteadOfConcat ==
    \A r \in Runs :
        tool[r].cmd # NoCmd =>
            IF background_music[r] # None /\ PathExists(background_music[r])
            THEN /\ HasPair(tool[r].cmd, "-filter_complex",
                            "[0:a][1:a]amix=inputs=2:duration=first:weights=1,0.3[a]")
                 /\ HasPair(tool[r].cmd, "-map", "[a]")
                 /\ ~HasPair(tool[r].cmd, "-c", "copy")
            ELSE tool[r].cmd = <<"ffmpeg", "-y", "-f", "concat", "-safe", "0", "-i",
                                 "temp_list.name", "-c", "copy", "-shortest",
                                 "output_path">>

\* C22 as claimed: a run whose media tool exited non-zero ends by raising an
\* error whose message is the tool's diagnostic output.
C22_AssemblyErrorCarriesDiagnostic ==
    \A r \in Runs :
        (tool[r].outcome = "nonzero" /\ pc[r] = "done") =>
            /\ result[r].kind = "raise"
            /\ hist[r].fatalStep = "assemble"
            /\ result[r].msg = tool[r].stderr

\* The messages of the exceptions run_local_video_generation raises.
PipelineErrors ==
    {"Title and story are required", "GROQ_API_KEY not configured",
     "SPEECHIFY_API_KEY not configured", "ClientError", "Groq API error",
     "JSONDecodeError", "KeyError", "Speechify API error",
     "No audio data received from Speechify", "FileNotFoundError",
     "Failed to create video", "OSError"}

\* Whether a text was given to current_app.logger.error.
Logged(text) == \E i \in 1..Len(error_log) : error_log[i] = text

\* C23 as claimed: a generate request whose generation failed is answered
\* with the generic 'Video generation failed' and status 500, and the
\* pipeline's own error is what its Video record's error_message and the
\* application log hold; without the LLM key that is the configuration
\* error.
C23_GenericOutsideSpecificInside ==
    \A q \in Requests :
        (/\ handler[q].pc = "returned"
         /\ handler[q].video # 0
         /\ videos[handler[q].video].status = "failed") =>
            /\ handler[q].response = FailureResponse
            /\ videos[handler[q].video].error_message \in PipelineErrors
            /\ Logged(videos[handler[q].video].error_message)

\* A POST to forgot_password with an address, by a client that is not logged
\* in, has been answered.
ForgotAnswered(q) ==
    /\ client[q].kind = "forgot"
    /\ client[q].pc = "returned"
    /\ ~client[q].logged_in
    /\ NormaliseEmail(client[q].email) # ""

\* C24: the answers to two forgot_password POSTs with a non-empty address
\* are the same, status and body, whether the address has an account or
\* not; and a reset token is created by such a request exactly when the
\* address has an account, so every token belongs to an account.
C24_ForgotPasswordSameAnswer ==
    /\ \A q1, q2 \in AuthRequests :
           (ForgotAnswered(q1) /\ ForgotAnswered(q2)) =>
               client[q1].response = client[q2].response
    /\ \A q \in AuthRequests :
           ForgotAnswered(q) =>
               (client[q].reset # 0 <=>
                    UserByEmail(users, NormaliseEmail(client[q].email)) # 0)
    /\ \A i \in 1..Len(password_resets) : password_resets[i].user_id \in DOMAIN users
    /\ Len(password_resets) =
           1 + Cardinality({q \in AuthRequests :
                               client[q].kind = "forgot" /\ client[q].reset # 0})

\* One request named the account's address and one an address without
\* account; both are answered, and one token was added.
C24_Witness ==
    \E q1, q2 \in AuthRequests :
        /\ ForgotAnswered(q1) /\ ForgotAnswered(q2)
        /\ NormaliseEmail(client[q1].email) = AccountEmail
        /\ client[q2].email = "bob@example.com"
        /\ client[q1].reset = 2
        /\ client[q2].reset = 0
        /\ Len(password_resets) = 2

\* The Video record of a request that passed the plan limit and the input
\* checks.
RecordOf(q) == videos[handler[q].video]

\* C25: the Video record of a request whose handler has returned is
\* 'completed' or 'failed'; a 'completed' record has the path the pipeline
\* returned, which names a file that exists, as its output_path, and has
\* completed_at set; a 'failed' record has error_message set.
C25_RecordsLeavePending ==
    /\ \A q \in Requests :
           (handler[q].pc = "returned" /\ handler[q].video # 0) =>
               /\ RecordOf(q).status \in {"completed", "failed"}
               /\ RecordOf(q).status = "completed" =>
                      /\ handler[q].video_path.kind = "path"
                      /\ RecordOf(q).output_path = handler[q].video_path.path
    /\ \A v \in 1..Len(videos) :
           /\ videos[v].status = "completed" =>
                  /\ videos[v].output_path \in DOMAIN uploads
                  /\ videos[v].completed_at # -1
           /\ videos[v].status = "failed" => videos[v].error_message # None

\* A request has created its record, and its handler has returned.
C25_Witness ==
    \E q \in Requests :
        /\ handler[q].pc = "returned"
        /\ handler[q].video # 0
        /\ RecordOf(q).status = "failed"
        /\ RecordOf(q).error_message = TypeErrorMessage

\* The monthly limit of a plan.
PlanLimit(plan) ==
    CASE plan = "free" -> 3 [] plan = "pro" -> 50 [] plan = "business" -> 500

C27_CounterFollowsCompletion ==
    [][/\ \A q \in Requests :
              (handler[q].pc # "returned" /\ handler'[q].pc = "returned") =>
                  /\ current_user'.videos_created_this_month =
                         current_user.videos_created_this_month +
                         (IF /\ handler'[q].video # 0
                             /\ videos'[handler'[q].video].status = "completed"
                          THEN 1 ELSE 0)
                  /\ handler'[q].response.status \in {400, 403} =>
                         (handler'[q].video = 0 /\ videos' = videos)
       /\ (\A q \in Requests : handler'[q].pc = "returned" => handler[q].pc = "returned")
              => current_user' = current_user
      ]_vars

\* One request was rejected by the plan limit or the input checks, and one
\* has failed.
C27_Witness ==
    \E q1, q2 \in Requests :
        /\ handler[q1].pc = "returned" /\ handler[q1].response.status \in {400, 403}
        /\ handler[q2].pc = "returned" /\ handler[q2].video # 0
        /\ RecordOf(q2).status = "failed"

\* C28 as claimed: no token is behind two password changes; a change is made
\* only for a token that had not expired when the request was received; and
\* a request that was not answered 200 has changed no password.
C28_TokenChangesPasswordOnce ==
    /\ \A i, j \in 1..Len(changes) : changes[i].token = changes[j].token => i = j
    /\ \A i \in 1..Len(changes) :
           /\ password_resets[changes[i].token].expires_at >= client[changes[i].by].seen_at
           /\ client[changes[i].by].response.status = 200
    /\ \A q \in AuthRequests :
           (/\ client[q].kind = "reset" /\ client[q].pc = "returned"
            /\ client[q].response.status # 200) =>
               \A i \in 1..Len(changes) : changes[i].by # q

\* C29 as claimed: the wrapped handler has run exactly for the requests
\* whose key is stored and active and whose owner exists and is active;
\* every other request is answered 401; and a key's last_used is set only by
\* a request whose handler ran.
C29_RejectedChangesNothing ==
    /\ \A q \in AuthRequests :
           (client[q].kind = "api" /\ client[q].pc = "returned") =>
               /\ client[q].ran <=>
                      /\ ActiveKey(api_keys, client[q].api_key)
                      /\ api_keys[client[q].api_key].user_id \in DOMAIN users
                      /\ users[api_keys[client[q].api_key].user_id].is_active
               /\ ~client[q].ran => client[q].response.status = 401
    /\ \A k \in DOMAIN api_keys :
           api_keys[k].last_used # -1 =>
               \E q \in AuthRequests :
                   client[q].kind = "api" /\ client[q].api_key = k /\ client[q].ran

\* C30 as claimed: once the handler of a request has returned, the story
\* file of the request's record does not exist.
C30_StoryFileRemoved ==
    \A q \in Requests :
        (handler[q].pc = "returned" /\ handler[q].video # 0) =>
            TempStoryFile(handler[q].video) \notin storyFiles

====
